---- MODULE Spec2Model ----
\* OMG-Rome: the proxy endpoint of src/gateway.js and the stream starts of
\* src/streaming.js (createFastStream, createStream), as one state machine.
\* Every HTTP request owns one record; the handlers of the child process, of the
\* startup timer, of the stdout stream and of the request are the actions (Spec).
\* The direct-URL cache of unnamed/part_002 (getDirectStreamUrl,
\* createStreamFromCachedUrl) is a second state machine over its own variables
\* (SpecCache), and the format selector handed to yt-dlp a third (SpecFormat).
\* SpecSolo is the proxy endpoint serving one request with every kind of selector.
EXTENDS Integers, Sequences, FiniteSets, TLC

\* ---------------------------------------------------------------- bounds
\* Number of stdout chunks a process may deliver (totalBytes is unbounded in the code).
MaxChunks == 2

\* ---------------------------------------------------------------- inputs
\* The requests of the model: all of them name the same plugin video, so any two
\* of them are requests for the same source.
Req == {"r1", "r2"}
Methods == {"GET", "HEAD"}
\* Values of req.query.quality.
QualityParams == {"fast", "best"}
\* Every kind of value the selector can have: the two names, absent ("") and an
\* unrecognized one.
AllQualityParams == {"fast", "best", "", "hd"}
\* Plugin names of the request path: one that is loaded, one that is not.
PluginNames == {"youtube", "nope"}
LoadedPlugins == {"youtube"}
\* A stderr chunk is the set of the marker words it contains.
StderrTexts == {{"ERROR"}, {"CRITICAL"}, {"WARNING"}, {"[youtube]"}}
\* JS null as an exit code (the process was ended by a signal).
NullCode == -1
NoSignal == "null"
\* (code, signal) pairs the 'exit' event can carry.
ExitOutcomes == {<<0, NoSignal>>, <<1, NoSignal>>,
                 <<NullCode, "SIGTERM">>, <<NullCode, "SIGKILL">>}
NoErr == <<"none", NullCode>>

\* ------------------------------------------------- inputs: direct-URL cache
\* Calls of createStreamFromCachedUrl (each one calls getDirectStreamUrl) that
\* may overlap.
Calls == {"c1", "c2"}
VideoUrls == {"u1", "u2"}
VideoIds == {"v1", "v2"}
\* The (videoUrl, videoId) pairs callers pass: each video under its own id, and
\* video u2 also under the id of u1.
Sources == {<<"u1", "v1">>, <<"u2", "v2">>, <<"u2", "v1">>}
\* this.CACHE_DURATION = 2 * 60 * 60 * 1000 (milliseconds)
CACHE_DURATION == 7200000
\* Date.now() advances by single milliseconds (at most MaxMoments of them after
\* each multiple of CACHE_DURATION) and by whole cache lifetimes (at most MaxLapses).
MaxMoments == 1
MaxLapses == 1
\* Number of lines the extractor prints on stdout.
MaxLines == 2
\* A cache slot without entry (Map.has is false), and a call without value.
NoEntry == [url |-> <<>>, extractedAt |-> -1, expiresAt |-> -1]
NoUrl == <<>>
\* Exit codes the 'close' event can carry (NullCode: ended by a signal).
CloseCodes == {0, 1, NullCode}

\* ---------------------------------------------- inputs: format selection
\* A rendition of a source: pre-combined (audio and video in one file), video
\* only or audio only, with its height (0 for audio).
Heights == {360, 720, 1080}
Renditions ==
  [kind : {"combined", "video"}, height : Heights] \cup {[kind |-> "audio", height |-> 0]}
\* The height named in the format argument of createFastStream.
HeightCap == 720
\* No selection made yet, and the selection that found no rendition.
Unselected == [kind |-> "unset", height |-> 0]
NoFormat == [kind |-> "none", height |-> 0]

\* ---------------------------------------------- inputs: gateway ids and URLs
\* Texts are sequences of tokens: a separator character is a token of its own,
\* a run of other characters is one token.
MaxIdLen == 2
\* Characters of a video id: a letter and the two punctuation marks ids contain.
IdChars == {"a", "_", "-"}
VideoIdTexts == UNION {[1..n -> IdChars] : n \in 1..MaxIdLen}
\* Names plugins register under (getName()).
GwPlugins == {<<"youtube">>, <<"my", "_", "tube">>}
\* An absent query parameter, and the empty text.
NoParam == <<>>
NoText == <<>>
\* Values of ?config=: absent, a base64 text without padding, one with padding.
ConfigParams == {NoParam, <<"b64A">>, <<"b64B", "=">>}
\* The object each base64 text encodes, and the object {}.
Configs == [b64A |-> "cfgA", b64B |-> "cfgB"]
EmptyConfig == "{}"
\* Tokens made of characters of [A-Za-z0-9+/=] only.
Base64Tokens == {"b64A", "b64B", "=", "quality", "config", "fast", "best", "a"}
\* The origin the stream endpoint prefixes its URLs with.
BaseUrl == "http://host"
Undefined == <<"undefined">>
\* No answer given yet.
NoAnswer == [status |-> 0]

VARIABLES req, urlCache, now, call, available, selected, gw

cacheVars == <<urlCache, now, call>>

formatVars == <<available, selected>>

vars == <<req, urlCache, now, call, available, selected, gw>>

\* The request record before the request arrives.
IdleReq ==
  [pc |-> "idle", method |-> "GET", quality |-> "best", pluginName |-> "youtube",
   proc |-> "none", sig |-> "none",
   streamReady |-> FALSE, timer |-> "unset", promise |-> "none", err |-> NoErr,
   totalBytes |-> 0, stdout |-> "none", written |-> 0,
   headersSent |-> FALSE, status |-> 0, body |-> "none", ended |-> FALSE,
   jsonCount |-> 0, clientGone |-> FALSE, mode |-> "none", spawnPeers |-> {}]

\* A call slot before the call is made. url is the const url of the 'close'
\* listener: the URL it has stored, NoUrl while it has stored none.
IdleCall ==
  [videoUrl |-> "u1", videoId |-> "v1",
   promise |-> "none", value |-> NoUrl, err |-> "none", url |-> NoUrl,
   proc |-> "none", sig |-> "none", timer |-> "unset", result |-> "none"]

\* The gateway before any of its endpoints has been requested.
IdleGw ==
  [pluginName |-> <<"youtube">>, videoId |-> <<"a">>, configParam |-> NoParam,
   id |-> NoText, stream |-> NoAnswer, meta |-> NoAnswer, proxy |-> NoAnswer]

Init ==
  /\ req = [r \in Req |-> IdleReq]
  /\ urlCache = [k \in VideoIds |-> NoEntry]
  /\ now = 0
  /\ call = [c \in Calls |-> IdleCall]
  /\ available = {}
  /\ selected = Unselected
  /\ gw = IdleGw

\* ------------------------------------------------- promise, timer, child
\* clearTimeout(initTimeout): cancels a timer that has not fired yet.
ClearTimeout(s) == IF s.timer = "armed" THEN [s EXCEPT !.timer = "cleared"] ELSE s

\* resolve(ytDlp.stdout): settles a pending promise, no effect on a settled one.
Resolve(s) == IF s.promise = "pending" THEN [s EXCEPT !.promise = "resolved"] ELSE s

\* reject(error): settles a pending promise, no effect on a settled one.
Reject(s, e) ==
  IF s.promise = "pending" THEN [s EXCEPT !.promise = "rejected", !.err = e] ELSE s

\* ytDlp.kill(signal): delivers the signal to a child that is still running.
Kill(s, signal) == IF s.proc = "running" THEN [s EXCEPT !.sig = signal] ELSE s

\* stderrText.includes(word)
Includes(text, word) == word \in text

\* ------------------------------------------------------ createFastStream
FastOnInitTimeout(s) ==
  IF ~s.streamReady THEN Reject(Kill(s, "SIGKILL"), <<"timeout", NullCode>>) ELSE s

\* Variant of the 'data' listener of createFastStream that leaves the timer armed.
FastOnStdoutDataKeepTimer(s) ==
  LET t == IF ~s.streamReady THEN Resolve([s EXCEPT !.streamReady = TRUE]) ELSE s
  IN [t EXCEPT !.totalBytes = @ + 1]

FastOnStdoutData(s) ==
  LET t == IF ~s.streamReady
           THEN Resolve(ClearTimeout([s EXCEPT !.streamReady = TRUE]))
           ELSE s
  IN [t EXCEPT !.totalBytes = @ + 1]

FastOnStderrData(s, text) ==
  IF Includes(text, "ERROR") \/ Includes(text, "CRITICAL")
  THEN IF ~s.streamReady THEN Reject(ClearTimeout(s), <<"stderr", NullCode>>) ELSE s
  ELSE s

FastOnError(s) ==
  LET t == ClearTimeout(s)
  IN IF ~t.streamReady THEN Reject(t, <<"spawn", NullCode>>) ELSE t

\* Variant of the 'exit' listener of createFastStream that starts over: the
\* session is not ready any more.
FastOnExitResetsReady(s, code, signal) ==
  LET t == ClearTimeout(s)
  IN IF code = 0 THEN [t EXCEPT !.streamReady = FALSE]
     ELSE IF ~t.streamReady THEN Reject(t, <<"exit", code>>) ELSE t

FastOnExit(s, code, signal) ==
  LET t == ClearTimeout(s)
  IN IF code = 0 THEN t
     ELSE IF ~t.streamReady THEN Reject(t, <<"exit", code>>) ELSE t

\* ---------------------------------------------------------- createStream
BestOnInitTimeout(s) ==
  IF ~s.streamReady THEN Reject(Kill(s, "SIGKILL"), <<"timeout", NullCode>>) ELSE s

BestOnStdoutData(s) ==
  LET t == IF ~s.streamReady
           THEN Resolve(ClearTimeout([s EXCEPT !.streamReady = TRUE]))
           ELSE s
  IN [t EXCEPT !.totalBytes = @ + 1]

BestOnStderrData(s, text) ==
  IF Includes(text, "ERROR") \/ Includes(text, "CRITICAL")
  THEN IF ~s.streamReady THEN Reject(ClearTimeout(s), <<"stderr", NullCode>>) ELSE s
  ELSE s

\* Variant of the 'error' listener of createStream that only logs.
BestOnErrorLogsOnly(s) == ClearTimeout(s)

BestOnError(s) ==
  LET t == ClearTimeout(s)
  IN IF ~t.streamReady THEN Reject(t, <<"spawn", NullCode>>) ELSE t

\* Variant of the 'exit' listener of createStream that fails the call on every
\* abnormal exit, streaming or not.
BestOnExitAlwaysFails(s, code, signal) ==
  LET t == ClearTimeout(s)
  IN IF code = 0 THEN t
     ELSE IF signal = "SIGTERM" \/ signal = "SIGKILL" THEN t
     ELSE [t EXCEPT !.promise = "rejected", !.err = <<"exit", code>>]

BestOnExit(s, code, signal) ==
  LET t == ClearTimeout(s)
  IN IF code = 0 THEN t
     ELSE IF signal = "SIGTERM" \/ signal = "SIGKILL" THEN t
     ELSE IF ~t.streamReady THEN Reject(t, <<"exit", code>>) ELSE t

\* --------------------------------------------- spawn (both stream starts)
\* createFastStream: spawn, then the timer and the listeners; the promise is pending.
\* spawnOk = FALSE is a spawn that fails: the child emits 'error' later.
CreateFastStream(s, spawnOk) ==
  [s EXCEPT !.mode = "fast", !.proc = IF spawnOk THEN "running" ELSE "spawnfail",
            !.stdout = "open", !.timer = "armed", !.promise = "pending"]

\* Variant of createStream that hands out the session of a process that has
\* already exited instead of spawning.
CreateStreamStale(s, spawnOk) ==
  [s EXCEPT !.mode = "best", !.proc = "exited", !.stdout = "ended",
            !.streamReady = TRUE, !.promise = "resolved"]

CreateStream(s, spawnOk) ==
  [s EXCEPT !.mode = "best", !.proc = IF spawnOk THEN "running" ELSE "spawnfail",
            !.stdout = "open", !.timer = "armed", !.promise = "pending"]

\* The listeners of the session, by the function that registered them.
OnInitTimeout(s) == IF s.mode = "fast" THEN FastOnInitTimeout(s) ELSE BestOnInitTimeout(s)
OnStdoutData(s) == IF s.mode = "fast" THEN FastOnStdoutData(s) ELSE BestOnStdoutData(s)
OnStderrData(s, text) ==
  IF s.mode = "fast" THEN FastOnStderrData(s, text) ELSE BestOnStderrData(s, text)
OnError(s) == IF s.mode = "fast" THEN FastOnError(s) ELSE BestOnError(s)
OnExit(s, code, signal) ==
  IF s.mode = "fast" THEN FastOnExit(s, code, signal) ELSE BestOnExit(s, code, signal)

\* ------------------------------------------------ gateway: proxy handler
\* const quality = req.query.quality || 'best'
Quality(param) == IF param = "" THEN "best" ELSE param

\* Variant of the catch block that retries a failed fast start in best mode.
ProxyCatchRetriesBest(s) ==
  IF s.mode = "fast" /\ s.promise = "rejected" /\ s.proc # "running"
  THEN CreateStream(s, TRUE)
  ELSE IF ~s.headersSent
  THEN [s EXCEPT !.pc = "done", !.headersSent = TRUE, !.status = 500,
                 !.body = "json", !.ended = TRUE, !.jsonCount = @ + 1]
  ELSE [s EXCEPT !.pc = "done"]

\* catch (error): a structured 500 unless the headers are already out.
ProxyCatch(s) ==
  IF ~s.headersSent
  THEN [s EXCEPT !.pc = "done", !.headersSent = TRUE, !.status = 500,
                 !.body = "json", !.ended = TRUE, !.jsonCount = @ + 1]
  ELSE [s EXCEPT !.pc = "done"]

\* Entry of the handler up to the first await: plugin lookup, 404 when unknown.
ProxyEnter(s) ==
  IF s.pluginName \notin LoadedPlugins
  THEN [s EXCEPT !.pc = "done", !.headersSent = TRUE, !.status = 404,
                 !.body = "json", !.ended = TRUE, !.jsonCount = @ + 1]
  ELSE [s EXCEPT !.pc = "resolving"]

\* Variant of the selection that runs createStream for 'best' only.
ProxyStartFastUnlessBest(s, urlOk, spawnOk) ==
  IF ~urlOk THEN ProxyCatch(s)
  ELSE IF Quality(s.quality) # "best"
       THEN CreateFastStream([s EXCEPT !.pc = "starting"], spawnOk)
       ELSE CreateStream([s EXCEPT !.pc = "starting"], spawnOk)

\* After await plugin.getVideoUrl: a throw goes to the catch block; otherwise the
\* stream start is chosen by the quality and the handler awaits its promise.
ProxyStart(s, urlOk, spawnOk) ==
  IF ~urlOk THEN ProxyCatch(s)
  ELSE IF Quality(s.quality) = "fast"
       THEN CreateFastStream([s EXCEPT !.pc = "starting"], spawnOk)
       ELSE CreateStream([s EXCEPT !.pc = "starting"], spawnOk)

\* After the stream start resolved: headers are set (not sent); a HEAD request is
\* answered 200 with no body and the handler returns; otherwise the listeners of
\* the request and of the stream are registered and the stream is piped.
ProxyAfterStream(s) ==
  IF s.method = "HEAD"
  THEN [s EXCEPT !.pc = "done", !.headersSent = TRUE, !.status = 200, !.ended = TRUE]
  ELSE [s EXCEPT !.pc = "piped"]

\* The continuation of the handler's await, run as a microtask right after the
\* listener that settled the promise.
ProxyResume(s) ==
  IF s.pc = "starting" /\ s.promise = "resolved" THEN ProxyAfterStream(s)
  ELSE IF s.pc = "starting" /\ s.promise = "rejected" THEN ProxyCatch(s)
  ELSE s

\* req.on('close') and req.on('aborted'): videoStream.destroy().
StreamDestroy(s) == IF s.stdout = "open" THEN [s EXCEPT !.stdout = "destroyed"] ELSE s

OnClientClose(s) == StreamDestroy(s)

OnClientAborted(s) == StreamDestroy(s)

\* videoStream.on('error')
OnStreamError(s) ==
  IF ~s.headersSent
  THEN [s EXCEPT !.headersSent = TRUE, !.status = 500, !.ended = TRUE]
  ELSE s

\* videoStream.pipe(res): every chunk emitted while piped is written to the
\* response (the first write sends the headers, status 200 by default) ...
PipeOnData(s) ==
  IF s.ended THEN s
  ELSE [s EXCEPT !.written = @ + 1, !.headersSent = TRUE, !.body = "stream",
                 !.status = IF s.headersSent THEN @ ELSE 200]

\* ... and the end of the stream ends the response.
PipeOnEnd(s) ==
  IF s.ended THEN s
  ELSE [s EXCEPT !.ended = TRUE, !.headersSent = TRUE,
                 !.status = IF s.headersSent THEN @ ELSE 200]

\* ---------------------------------------------------------------- actions
\* A request is live while its client is connected and the handler is still
\* resolving or starting, or is streaming: piped, stream open, response not ended.
Live(s) ==
  /\ ~s.clientGone
  /\ \/ s.pc \in {"resolving", "starting"}
     \/ s.pc = "piped" /\ s.stdout = "open" /\ ~s.ended

\* The other requests that are live when r spawns its process.
LivePeers(r) == {q \in Req \ {r} : Live(req[q])}

\* spawnPeers is history, not program state: for a live request that has spawned,
\* the requests that were live at its spawn and have been live ever since.
Overlap(f) ==
  [r \in Req |->
     [f[r] EXCEPT !.spawnPeers = IF Live(f[r]) THEN {q \in @ : Live(f[q])} ELSE {}]]

\* One step of request r: its record becomes s.
Step(r, s) ==
  /\ req' = Overlap([req EXCEPT ![r] = s])
  /\ UNCHANGED <<cacheVars, formatVars, gw>>

\* A request reaches the proxy endpoint (app.get also serves HEAD).
Arrive(r) ==
  /\ req[r].pc = "idle"
  /\ \E m \in Methods, q \in QualityParams, p \in PluginNames :
       Step(r, ProxyEnter([IdleReq EXCEPT !.method = m, !.quality = q, !.pluginName = p]))

\* plugin.getVideoUrl settles: the handler goes on to start the stream.
UrlResolved(r) ==
  /\ req[r].pc = "resolving"
  /\ \E urlOk \in BOOLEAN, spawnOk \in BOOLEAN :
       Step(r, ProxyStart([req[r] EXCEPT !.spawnPeers = IF urlOk THEN LivePeers(r) ELSE {}],
                            urlOk, spawnOk))

\* INIT_TIMEOUT elapses: an armed timer runs its callback, a cleared one does not.
\* The 'error' event of a failed spawn is emitted on the next tick, long before
\* any deadline.
Deadline(r) ==
  /\ req[r].timer \in {"armed", "cleared"}
  /\ req[r].proc # "spawnfail"
  /\ Step(r, IF req[r].timer = "armed"
               THEN ProxyResume(OnInitTimeout([req[r] EXCEPT !.timer = "fired"]))
               ELSE [req[r] EXCEPT !.timer = "lapsed"])

\* A chunk arrives on stdout (also after 'exit': the pipe may still hold data).
\* The session's listener runs first, then the pipe's if the stream is piped.
StdoutData(r) ==
  /\ req[r].stdout = "open"
  /\ req[r].proc \in {"running", "exited"}
  /\ req[r].totalBytes < MaxChunks
  /\ Step(r, LET t == OnStdoutData(req[r])
               IN ProxyResume(IF req[r].pc = "piped" THEN PipeOnData(t) ELSE t))

\* A chunk of diagnostic text arrives on stderr.
StderrData(r, text) ==
  /\ req[r].proc = "running"
  /\ Step(r, ProxyResume(OnStderrData(req[r], text)))

\* The child emits 'error': the spawn failed.
ProcError(r) ==
  /\ req[r].proc = "spawnfail"
  /\ Step(r, ProxyResume(OnError([req[r] EXCEPT !.proc = "failed"])))

\* The child emits 'exit'.
ProcExit(r, code, signal) ==
  /\ req[r].proc = "running"
  /\ Step(r, ProxyResume(OnExit([req[r] EXCEPT !.proc = "exited"], code, signal)))

\* stdout reaches end of file once the child is gone.
StdoutEnd(r) ==
  /\ req[r].stdout = "open"
  /\ req[r].proc \in {"exited", "failed"}
  /\ Step(r, LET t == [req[r] EXCEPT !.stdout = "ended"]
               IN IF req[r].pc = "piped" THEN PipeOnEnd(t) ELSE t)

\* The piped stream emits 'error' (the listener exists once the stream is piped);
\* an errored stream is destroyed and emits neither 'data' nor 'end' afterwards.
StreamError(r) ==
  /\ req[r].pc = "piped"
  /\ req[r].stdout = "open"
  /\ Step(r, OnStreamError([req[r] EXCEPT !.stdout = "errored"]))

\* The client goes away: 'close' or 'aborted' on the request. The listeners exist
\* once the stream is piped; before that the event has no listener.
ClientCancel(r, ev) ==
  /\ req[r].pc \in {"resolving", "starting", "piped"}
  /\ Step(r, LET t == [req[r] EXCEPT !.clientGone = TRUE]
               IN IF req[r].pc # "piped" THEN t
                  ELSE IF ev = "close" THEN OnClientClose(t) ELSE OnClientAborted(t))

Next ==
  \E r \in Req :
    \/ Arrive(r)
    \/ UrlResolved(r)
    \/ Deadline(r)
    \/ StdoutData(r)
    \/ \E text \in StderrTexts : StderrData(r, text)
    \/ ProcError(r)
    \/ \E o \in ExitOutcomes : ProcExit(r, o[1], o[2])
    \/ StdoutEnd(r)
    \/ StreamError(r)
    \/ \E ev \in {"close", "aborted"} : ClientCancel(r, ev)

Spec == Init /\ [][Next]_vars

\* ------------------------------------------- one request, every selector
\* A request reaches the proxy endpoint with any kind of quality selector.
ArriveAny(r) ==
  /\ req[r].pc = "idle"
  /\ \E m \in Methods, q \in AllQualityParams, p \in PluginNames :
       Step(r, ProxyEnter([IdleReq EXCEPT !.method = m, !.quality = q, !.pluginName = p]))

\* The proxy endpoint serving request r1 alone.
NextSolo ==
  \/ ArriveAny("r1")
  \/ UrlResolved("r1")
  \/ Deadline("r1")
  \/ StdoutData("r1")
  \/ \E text \in StderrTexts : StderrData("r1", text)
  \/ ProcError("r1")
  \/ \E o \in ExitOutcomes : ProcExit("r1", o[1], o[2])
  \/ StdoutEnd("r1")
  \/ StreamError("r1")
  \/ \E ev \in {"close", "aborted"} : ClientCancel("r1", ev)

SpecSolo == Init /\ [][NextSolo]_vars

\* ------------------------------------- direct-URL cache (unnamed/part_002)
\* this.urlCache.has(videoId)
CacheHas(cache, k) == cache[k] # NoEntry

\* this.urlCache.delete(videoId)
CacheDelete(cache, k) == [cache EXCEPT ![k] = NoEntry]

\* this.urlCache.set(videoId, {url, extractedAt: now, expiresAt: now + CACHE_DURATION})
CacheSet(cache, k, url, t) ==
  [cache EXCEPT ![k] = [url |-> url, extractedAt |-> t, expiresAt |-> t + CACHE_DURATION]]

\* A line of extractor output is <<scheme, rest>>: a direct URL of the video
\* ("http") or diagnostic text; line.startsWith('http') tests the scheme.
LinesOf(u) == {<<"http", u>>, <<"WARNING", u>>}
StartsWithHttp(line) == line[1] = "http"

\* What stdout can have accumulated when the extractor of video u closes.
Outputs(u) == UNION {[1..n -> LinesOf(u)] : n \in 0..MaxLines}

\* stdout.trim().split('\n').filter(url => url.startsWith('http'))
ExtractedUrls(out) == SelectSeq(out, StartsWithHttp)

\* resolve / reject of the extraction promise: only a pending promise settles.
ResolveCall(s, url) ==
  IF s.promise = "pending" THEN [s EXCEPT !.promise = "resolved", !.value = url] ELSE s

RejectCall(s, e) ==
  IF s.promise = "pending" THEN [s EXCEPT !.promise = "rejected", !.err = e] ELSE s

\* ytDlp.kill(): SIGTERM to a child that is still running.
KillCall(s) == IF s.proc = "running" THEN [s EXCEPT !.sig = "SIGTERM"] ELSE s

\* Variant of getDirectStreamUrl whose hit also starts an extraction that is to
\* refresh the entry.
GetDirectStreamUrlRefresh(s, cache, t, spawnOk) ==
  IF CacheHas(cache, s.videoId) /\ t < cache[s.videoId].expiresAt
  THEN [call |-> [s EXCEPT !.promise = "resolved", !.value = cache[s.videoId].url,
                           !.timer = "armed",
                           !.proc = IF spawnOk THEN "running" ELSE "spawnfail"],
        cache |-> cache]
  ELSE [call |-> [s EXCEPT !.promise = "pending", !.timer = "armed",
                           !.proc = IF spawnOk THEN "running" ELSE "spawnfail"],
        cache |-> IF CacheHas(cache, s.videoId) THEN CacheDelete(cache, s.videoId)
                  ELSE cache]

\* Variant of getDirectStreamUrl that leaves an expired entry in the cache.
GetDirectStreamUrlKeepStale(s, cache, t, spawnOk) ==
  IF CacheHas(cache, s.videoId) /\ t < cache[s.videoId].expiresAt
  THEN [call |-> [s EXCEPT !.promise = "resolved", !.value = cache[s.videoId].url],
        cache |-> cache]
  ELSE [call |-> [s EXCEPT !.promise = "pending", !.timer = "armed",
                           !.proc = IF spawnOk THEN "running" ELSE "spawnfail"],
        cache |-> cache]

\* Variant of getDirectStreamUrl whose hit renews the lifetime of the entry.
GetDirectStreamUrlSliding(s, cache, t, spawnOk) ==
  IF CacheHas(cache, s.videoId) /\ t < cache[s.videoId].expiresAt
  THEN [call |-> [s EXCEPT !.promise = "resolved", !.value = cache[s.videoId].url],
        cache |-> [cache EXCEPT ![s.videoId].expiresAt = t + CACHE_DURATION]]
  ELSE [call |-> [s EXCEPT !.promise = "pending", !.timer = "armed",
                           !.proc = IF spawnOk THEN "running" ELSE "spawnfail"],
        cache |-> IF CacheHas(cache, s.videoId) THEN CacheDelete(cache, s.videoId)
                  ELSE cache]

\* getDirectStreamUrl up to its return: an unexpired entry is returned without a
\* spawn; an expired one is deleted; on a miss the extractor is spawned, its
\* listeners and the 15 s timer are set and the promise is pending.
\* The result is the call record and the cache.
GetDirectStreamUrl(s, cache, t, spawnOk) ==
  IF CacheHas(cache, s.videoId) /\ t < cache[s.videoId].expiresAt
  THEN [call |-> [s EXCEPT !.promise = "resolved", !.value = cache[s.videoId].url],
        cache |-> cache]
  ELSE [call |-> [s EXCEPT !.promise = "pending", !.timer = "armed",
                           !.proc = IF spawnOk THEN "running" ELSE "spawnfail"],
        cache |-> IF CacheHas(cache, s.videoId) THEN CacheDelete(cache, s.videoId)
                  ELSE cache]

\* Variant of the 'close' listener that keeps an entry another call has stored.
DirectOnCloseKeepFirst(s, cache, t, code, out) ==
  LET urls == ExtractedUrls(out)
  IN IF code = 0 /\ Len(urls) > 0
     THEN [call |-> ResolveCall([s EXCEPT !.url = urls[1]], urls[1]),
           cache |-> IF CacheHas(cache, s.videoId) THEN cache
                     ELSE CacheSet(cache, s.videoId, urls[1], t)]
     ELSE [call |-> RejectCall(s, IF code = 0 THEN "nourl" ELSE "exit"),
           cache |-> cache]

\* ytDlp.on('close'): exit code 0 with at least one http line stores the first
\* one and resolves with it; anything else rejects.
DirectOnClose(s, cache, t, code, out) ==
  LET urls == ExtractedUrls(out)
  IN IF code = 0 /\ Len(urls) > 0
     THEN [call |-> ResolveCall([s EXCEPT !.url = urls[1]], urls[1]),
           cache |-> CacheSet(cache, s.videoId, urls[1], t)]
     ELSE [call |-> RejectCall(s, IF code = 0 THEN "nourl" ELSE "exit"),
           cache |-> cache]

\* ytDlp.on('error')
DirectOnError(s) == RejectCall(s, "spawn")

\* Variant of the timer callback whose rejection replaces a settled outcome.
DirectOnTimeoutOverrides(s) ==
  [KillCall(s) EXCEPT !.promise = "rejected", !.err = "timeout"]

\* The 15 s timer (never cleared): kill, then reject.
DirectOnTimeout(s) == RejectCall(KillCall(s), "timeout")

\* The createStream of the same class: the promise is resolved with the stdout of
\* the new process before the executor returns.
CachedCreateStream(s) == [s EXCEPT !.result = "stream"]

\* Variant of createStreamFromCachedUrl whose catch block rethrows.
CreateStreamFromCachedUrlRethrow(s) ==
  IF s.result # "none" THEN s
  ELSE IF s.promise = "resolved" THEN [s EXCEPT !.result = "redirect"]
  ELSE IF s.promise = "rejected" THEN [s EXCEPT !.result = "failed"]
  ELSE s

\* createStreamFromCachedUrl after its await: a redirect to the direct URL, or
\* in the catch block the result of createStream.
CreateStreamFromCachedUrl(s) ==
  IF s.result # "none" THEN s
  ELSE IF s.promise = "resolved" THEN [s EXCEPT !.result = "redirect"]
  ELSE IF s.promise = "rejected" THEN CachedCreateStream(s)
  ELSE s

\* ----------------------------------------------------------- cache actions
\* One step of call c: its record and the cache become those of the result.
CacheStep(c, res) ==
  /\ call' = [call EXCEPT ![c] = CreateStreamFromCachedUrl(res.call)]
  /\ urlCache' = res.cache
  /\ UNCHANGED <<req, now, formatVars, gw>>

\* A caller invokes createStreamFromCachedUrl, which calls getDirectStreamUrl.
CallDirect(c) ==
  /\ call[c].promise = "none"
  /\ \E src \in Sources, spawnOk \in BOOLEAN :
       CacheStep(c, GetDirectStreamUrl(
                      [IdleCall EXCEPT !.videoUrl = src[1], !.videoId = src[2]],
                      urlCache, now, spawnOk))

\* The extractor closes with an exit code; out is what stdout accumulated. A
\* signal sent to it is pending no longer.
ExtractClose(c, code, out) ==
  /\ call[c].proc = "running"
  /\ CacheStep(c, DirectOnClose([call[c] EXCEPT !.proc = "closed", !.sig = "none"],
                                urlCache, now, code, out))

\* The extractor emits 'error': the spawn failed.
ExtractError(c) ==
  /\ call[c].proc = "spawnfail"
  /\ CacheStep(c, [call |-> DirectOnError([call[c] EXCEPT !.proc = "failed"]),
                   cache |-> urlCache])

\* 15 s after the spawn the timer runs its callback.
ExtractTimeout(c) ==
  /\ call[c].timer = "armed"
  /\ CacheStep(c, [call |-> DirectOnTimeout([call[c] EXCEPT !.timer = "fired"]),
                   cache |-> urlCache])

\* The caller is done with a finished call: the slot serves the next call.
Forget(c) ==
  /\ call[c].promise \in {"resolved", "rejected"}
  /\ call[c].timer # "armed"
  /\ call[c].proc \notin {"running", "spawnfail"}
  /\ call' = [call EXCEPT ![c] = IdleCall]
  /\ UNCHANGED <<req, urlCache, now, formatVars, gw>>

\* Date.now() advances by a millisecond.
Moment ==
  /\ now % CACHE_DURATION < MaxMoments
  /\ now' = now + 1
  /\ UNCHANGED <<req, urlCache, call, formatVars, gw>>

\* A whole cache lifetime passes: by then every 15 s timer has run and every
\* extractor, killed by its timer at the latest, has closed.
Lapse ==
  /\ now \div CACHE_DURATION < MaxLapses
  /\ \A c \in Calls : call[c].timer # "armed" /\ call[c].proc \notin {"running", "spawnfail"}
  /\ now' = now + CACHE_DURATION
  /\ UNCHANGED <<req, urlCache, call, formatVars, gw>>

NextCache ==
  \/ \E c \in Calls :
       \/ CallDirect(c)
       \/ \E code \in CloseCodes, out \in Outputs(call[c].videoUrl) : ExtractClose(c, code, out)
       \/ ExtractError(c)
       \/ ExtractTimeout(c)
       \/ Forget(c)
  \/ Moment
  \/ Lapse

SpecCache == Init /\ [][NextCache]_vars

\* ---------------------------------------- format selection (yt-dlp -f)
\* A format argument is a list of alternatives separated by '/': the first one
\* that can be satisfied decides. An alternative names the parts to download:
\* 'best' is one pre-combined rendition, 'bestvideo+bestaudio' a video-only and
\* an audio-only rendition that yt-dlp merges; '[height<=720]' keeps renditions
\* of at most that height.
\* createFastStream passes 'best[height<=720]/best'.
FastFormatMerging == <<[parts |-> <<"video", "audio">>, capped |-> FALSE],
                       [parts |-> <<"combined">>, capped |-> FALSE]>>

FastFormat == <<[parts |-> <<"combined">>, capped |-> TRUE],
                [parts |-> <<"combined">>, capped |-> FALSE]>>

\* The renditions of one kind that a part of an alternative matches.
Matches(kind, capped, avail) ==
  {f \in avail : f.kind = kind /\ (capped => f.height <= HeightCap)}

\* An alternative can be satisfied when every part of it matches a rendition.
Selectable(alt, avail) ==
  \A i \in 1..Len(alt.parts) : Matches(alt.parts[i], alt.capped, avail) # {}

\* 'best': the candidate of the greatest height.
Best(S) == CHOOSE f \in S : \A g \in S : g.height <= f.height

\* What yt-dlp delivers for a satisfiable alternative: the best rendition of a
\* single part, or the merge of the best renditions of several parts.
Download(alt, avail) ==
  IF Len(alt.parts) = 1 THEN Best(Matches(alt.parts[1], alt.capped, avail))
  ELSE [kind |-> "merged",
        height |-> Best(Matches(alt.parts[1], alt.capped, avail)).height]

\* The rendition yt-dlp downloads for a format argument, NoFormat when no
\* alternative can be satisfied (yt-dlp then exits with an error).
RECURSIVE SelectFormat(_, _)
SelectFormat(format, avail) ==
  IF format = <<>> THEN NoFormat
  ELSE IF Selectable(Head(format), avail) THEN Download(Head(format), avail)
  ELSE SelectFormat(Tail(format), avail)

\* The session of a fast request right after createFastStream spawned yt-dlp.
FastSession ==
  CreateFastStream([IdleReq EXCEPT !.pc = "starting", !.quality = "fast"], TRUE)

\* A source, with any set of renditions, has been requested in fast mode by r1.
InitFormat ==
  /\ req = [r \in Req |-> IF r = "r1" THEN FastSession ELSE IdleReq]
  /\ urlCache = [k \in VideoIds |-> NoEntry]
  /\ now = 0
  /\ call = [c \in Calls |-> IdleCall]
  /\ available \in SUBSET Renditions
  /\ selected = Unselected
  /\ gw = IdleGw

\* The process spawned by createFastStream selects its rendition.
FastSelect ==
  /\ selected = Unselected
  /\ selected' = SelectFormat(FastFormat, available)
  /\ UNCHANGED <<req, cacheVars, available, gw>>

\* yt-dlp found no rendition for the format argument: it exits with code 1 and
\* no output, after an ERROR line on stderr that may or may not be delivered
\* before the 'exit' event.
FormatUnavailable ==
  /\ selected = NoFormat
  /\ req["r1"].proc = "running"
  /\ \E seen \in BOOLEAN :
       Step("r1", LET s == [req["r1"] EXCEPT !.proc = "exited"]
                      t == IF seen THEN ProxyResume(OnStderrData(s, {"ERROR"})) ELSE s
                  IN ProxyResume(OnExit(t, 1, NoSignal)))

NextFormat == FastSelect \/ FormatUnavailable

SpecFormat == InitFormat /\ [][NextFormat]_vars


\* ------------------------------------------------ gateway: ids and stream URLs
\* String.prototype.split(sep): the pieces between the separators.
RECURSIVE Split(_, _)
Split(s, sep) ==
  IF \A i \in 1..Len(s) : s[i] # sep
  THEN <<s>>
  ELSE LET i == CHOOSE k \in 1..Len(s) : s[k] = sep /\ \A j \in 1..(k - 1) : s[j] # sep
       IN <<SubSeq(s, 1, i - 1)>> \o Split(SubSeq(s, i + 1, Len(s)), sep)

\* The text before the first sep, and the text after it (nothing when absent).
Before(s, sep) == Split(s, sep)[1]
After(s, sep) == SubSeq(s, Len(Before(s, sep)) + 2, Len(s))

\* The id of a catalog item: `${pluginName}_${video.id}`.
CatalogId(pluginName, videoId) == pluginName \o <<"_">> \o videoId

\* const [pluginName, videoId] = id.split('_'): the first two pieces.
ParseId(id) ==
  LET pieces == Split(id, "_")
  IN [pluginName |-> pieces[1],
      videoId |-> IF Len(pieces) >= 2 THEN pieces[2] ELSE Undefined]

IsBase64(t) == t \in Base64Tokens

\* decodeConfig: nothing or '' gives {}; otherwise the characters outside the
\* base64 alphabet are removed, the rest is decoded (the decoder stops at the
\* first padding character) and parsed as JSON; a text that is not JSON makes
\* JSON.parse throw, and the catch returns {}.
DecodeConfig(configParam) ==
  IF configParam = NoParam
  THEN EmptyConfig
  ELSE LET cleanBase64 == SelectSeq(configParam, IsBase64)
           configJson == Before(cleanBase64, "=")
       IN IF configJson = NoText THEN EmptyConfig
          ELSE IF Len(configJson) = 1 /\ configJson[1] \in DOMAIN Configs
               THEN Configs[configJson[1]]
               ELSE EmptyConfig

\* The query string of a URL (what follows the first '?'), and the value of one
\* of its parameters: pairs are separated by '&', name and value by the first
\* '=' of the pair.
QueryOf(url) == After(url, "?")
QueryGet(query, name) ==
  LET pairs == Split(query, "&")
      hits == {i \in 1..Len(pairs) : Before(pairs[i], "=") = <<name>>}
  IN IF hits = {} THEN NoParam
     ELSE After(pairs[CHOOSE i \in hits : \A j \in hits : i <= j], "=")

\* `${baseStreamUrl}?quality=...`
StreamUrl(baseStreamUrl, quality) == baseStreamUrl \o <<"?", "quality", "=", quality>>

\* GET /stream/:type/:id.json
StreamEndpoint(id, configParam) ==
  LET config == DecodeConfig(configParam)
      parsed == ParseId(id)
      baseStreamUrl ==
        <<BaseUrl, "/", "proxy", "/">> \o parsed.pluginName \o <<"/">> \o parsed.videoId
          \o (IF configParam # NoParam THEN <<"?", "config", "=">> \o configParam ELSE <<>>)
  IN IF parsed.pluginName \notin GwPlugins
     THEN [status |-> 404, pluginName |-> parsed.pluginName, videoId |-> parsed.videoId,
           config |-> config, streams |-> [fast |-> NoText, best |-> NoText]]
     ELSE [status |-> 200, pluginName |-> parsed.pluginName, videoId |-> parsed.videoId,
           config |-> config,
           streams |-> [fast |-> StreamUrl(baseStreamUrl, "fast"),
                        best |-> StreamUrl(baseStreamUrl, "best")]]

\* GET /meta/:type/:id.json
MetaEndpoint(id, configParam) ==
  LET config == DecodeConfig(configParam)
      parsed == ParseId(id)
  IN [status |-> IF parsed.pluginName \in GwPlugins THEN 200 ELSE 404,
      pluginName |-> parsed.pluginName, videoId |-> parsed.videoId, config |-> config]

\* GET /proxy/:pluginName/:videoId for a URL: the route matches a path of the
\* form /proxy/<name>/<id> with both parts non-empty; the handler decodes the
\* config parameter and takes quality from the query, 'best' when it is absent.
ProxyEndpoint(url) ==
  LET path == Split(Before(Tail(url), "?"), "/")
      query == QueryOf(url)
      config == DecodeConfig(QueryGet(query, "config"))
      quality == IF QueryGet(query, "quality") = NoParam THEN <<"best">>
                 ELSE QueryGet(query, "quality")
  IN IF Len(path) = 4 /\ path[1] = NoText /\ path[2] = <<"proxy">>
          /\ path[3] # NoText /\ path[4] # NoText
     THEN [status |-> IF path[3] \in GwPlugins THEN 200 ELSE 404,
           pluginName |-> path[3], videoId |-> path[4], config |-> config,
           quality |-> quality,
           mode |-> IF quality = <<"fast">> THEN "fast" ELSE "best"]
     ELSE [status |-> 404, pluginName |-> Undefined, videoId |-> Undefined,
           config |-> EmptyConfig, quality |-> NoParam, mode |-> "none"]

GwStep(g) ==
  /\ gw' = g
  /\ UNCHANGED <<req, cacheVars, formatVars>>

\* The catalog endpoint lists the video under its item id.
Catalog ==
  /\ gw.id = NoText
  /\ GwStep([gw EXCEPT !.id = CatalogId(gw.pluginName, gw.videoId)])

\* The client requests the streams of the listed item.
StreamRequest ==
  /\ gw.id # NoText /\ gw.stream = NoAnswer
  /\ GwStep([gw EXCEPT !.stream = StreamEndpoint(gw.id, gw.configParam)])

\* The client requests the metadata of the listed item.
MetaRequest ==
  /\ gw.id # NoText /\ gw.meta = NoAnswer
  /\ GwStep([gw EXCEPT !.meta = MetaEndpoint(gw.id, gw.configParam)])

\* The client requests one of the two listed stream URLs.
ProxyRequest(listed) ==
  /\ gw.stream.status = 200 /\ gw.proxy = NoAnswer
  /\ GwStep([gw EXCEPT !.proxy = [listed |-> listed,
                                  answer |-> ProxyEndpoint(gw.stream.streams[listed])]])

InitGateway ==
  /\ req = [r \in Req |-> IdleReq]
  /\ urlCache = [k \in VideoIds |-> NoEntry]
  /\ now = 0
  /\ call = [c \in Calls |-> IdleCall]
  /\ available = {}
  /\ selected = Unselected
  /\ \E p \in GwPlugins, v \in VideoIdTexts, cp \in ConfigParams :
       gw = [IdleGw EXCEPT !.pluginName = p, !.videoId = v, !.configParam = cp]

NextGateway ==
  \/ Catalog
  \/ StreamRequest
  \/ MetaRequest
  \/ \E listed \in QualityParams : ProxyRequest(listed)

SpecGateway == InitGateway /\ [][NextGateway]_vars

\* ------------------------------------------------------------------ claims
\* The handler has called createFastStream or createStream for the request.
Started(s) == s.mode # "none"

\* C1: every createFastStream call settles: its promise is pending only while the
\* startup timer is armed or the process can still deliver an event; no state
\* leaves the caller suspended with nothing left that could resolve or reject it.
C1_FastStartSettles ==
  \A r \in Req :
    (req[r].mode = "fast" /\ req[r].promise = "pending")
      => \/ req[r].timer = "armed"
         \/ req[r].proc \in {"running", "spawnfail"}
         \/ req[r].stdout = "open"

\* C2: in both stream starts, a process that has exited without ever producing a
\* stdout byte (stdout ended empty) has made the start call fail, whatever the exit
\* code or signal was.
C2_ExitWithoutOutputFails ==
  \A r \in Req :
    (req[r].proc = "exited" /\ req[r].stdout = "ended" /\ req[r].totalBytes = 0)
      => req[r].promise = "rejected"

\* C3: a HEAD request to the proxy endpoint never spawns an extraction process and
\* never gets body bytes written.
C3_HeadNeverSpawns ==
  \A r \in Req :
    req[r].method = "HEAD" => (req[r].proc = "none" /\ req[r].written = 0)

\* C4: two requests for the same source whose lifetimes overlap never both spawn a
\* process during the overlap.
C4_OneSpawnPerOverlap ==
  \A r, q \in Req :
    r # q => ~(q \in req[r].spawnPeers /\ r \in req[q].spawnPeers)

\* C5: once the client of an established (piped) stream has disconnected or
\* aborted, and the handler has run (the stream is destroyed), the process has been
\* sent a termination signal or has exited.
C5_DisconnectKills ==
  \A r \in Req :
    req[r].stdout = "destroyed" => (req[r].sig # "none" \/ req[r].proc = "exited")

\* C6: once the startup deadline has elapsed on a running process that has produced
\* no stdout byte, the process has been sent SIGKILL and the start call has failed
\* with the initialization-timeout error.
C6_DeadlineKills ==
  \A r \in Req :
    (req[r].timer \in {"fired", "lapsed"} /\ req[r].totalBytes = 0
       /\ req[r].proc = "running")
      => /\ req[r].sig = "SIGKILL"
         /\ req[r].promise = "rejected"
         /\ req[r].err[1] = "timeout"

\* C7: a stderr chunk never changes the control flow of a stream start: the step
\* that delivers it leaves the promise, the startup timer and the handler's
\* position as they were, so a run with the stderr events and the run without
\* them settle alike.
C7_StderrNoControlFlow ==
  [][\A r \in Req, text \in StderrTexts :
       StderrData(r, text)
         => /\ req'[r].promise = req[r].promise
            /\ req'[r].timer = req[r].timer
            /\ req'[r].pc = req[r].pc]_vars

\* C8: after the piped stream raised an error with headers and bytes already sent,
\* the response has been ended and carries no structured error body.
C8_StreamErrorEndsResponse ==
  \A r \in Req :
    (req[r].stdout = "errored" /\ req[r].written > 0)
      => (req[r].ended /\ req[r].body # "json")

\* A request has failed before any byte was sent: URL resolution threw, the spawn
\* failed, the startup timer fired, or the process exited without any output.
FailedBeforeBytes(s) ==
  /\ s.written = 0
  /\ \/ s.pc = "done" /\ s.pluginName \in LoadedPlugins /\ ~Started(s)
     \/ s.proc = "failed"
     \/ s.timer = "fired"
     \/ s.proc = "exited" /\ s.stdout = "ended" /\ s.totalBytes = 0

\* C9: a proxy request that failed before any byte was sent has been answered with
\* a structured JSON error of status 500, exactly once.
C9_EarlyFailureAnswers500 ==
  \A r \in Req :
    FailedBeforeBytes(req[r])
      => (req[r].status = 500 /\ req[r].body = "json" /\ req[r].jsonCount = 1)

\* C10: cancelling is idempotent and escalates: a further 'close' or 'aborted' event
\* on a request whose stream is already destroyed changes nothing, and a cancelled
\* stream whose process still runs has been sent a terminate signal (SIGTERM, or
\* SIGKILL after the grace window).
C10_CancelIdempotentEscalates ==
  [][
      /\ \A r \in Req, ev \in {"close", "aborted"} :
           (ClientCancel(r, ev) /\ req[r].stdout = "destroyed") => req'[r] = req[r]
      /\ \A q \in Req :
           (req'[q].stdout = "destroyed" /\ req'[q].proc = "running")
             => req'[q].sig \in {"SIGTERM", "SIGKILL"}
    ]_vars

\* C11: getDirectStreamUrl answers a lookup of an unexpired entry (now < expiresAt)
\* with the stored URL, spawning nothing and leaving the cache as it was; a lookup
\* at or after expiresAt is a miss: the key has no entry when the extraction
\* starts; and an extraction that resolves its call stores a fresh entry
\* (extractedAt = now) holding the URL it resolved with.
C11_CacheLookup ==
  [][
      /\ \A c \in Calls :
           CallDirect(c) =>
             LET k == call'[c].videoId
                 fresh == CacheHas(urlCache, k) /\ now < urlCache[k].expiresAt
             IN /\ fresh => /\ call'[c].promise = "resolved"
                            /\ call'[c].value = urlCache[k].url
                            /\ call'[c].proc = "none"
                            /\ urlCache' = urlCache
                /\ ~fresh => /\ urlCache'[k] = NoEntry
                             /\ call'[c].promise = "pending"
                             /\ call'[c].proc # "none"
      /\ \A c \in Calls :
           (call[c].promise = "pending" /\ call'[c].promise = "resolved")
             => urlCache'[call[c].videoId] =
                  [url |-> call'[c].value, extractedAt |-> now,
                   expiresAt |-> now + CACHE_DURATION]
    ]_vars

\* A call is extracting for a key whose entry, stored by the other call, has
\* expired and been deleted.
C11_Witness ==
  \E c, d \in Calls :
    /\ c # d /\ call[c].videoId = call[d].videoId
    /\ call[d].promise = "resolved" /\ call[d].proc = "closed"
    /\ call[c].promise = "pending" /\ call[c].proc = "running"
    /\ urlCache[call[c].videoId] = NoEntry

\* C12: every entry of urlCache has expiresAt = extractedAt + CACHE_DURATION, and
\* an entry only changes by being deleted or by being set anew as a whole
\* (extractedAt = now): no step alters a field of an existing entry.
C12_EntryLifetime ==
  [][\A k \in VideoIds :
       /\ urlCache'[k] # NoEntry
            => urlCache'[k].expiresAt = urlCache'[k].extractedAt + CACHE_DURATION
       /\ urlCache'[k] # urlCache[k]
            => (urlCache'[k] = NoEntry \/ urlCache'[k].extractedAt = now)]_vars

\* A hit has been served from an entry stored earlier, and the entry is intact.
C12_Witness ==
  \E c \in Calls :
    /\ call[c].promise = "resolved" /\ call[c].proc = "none"
    /\ CacheHas(urlCache, call[c].videoId)
    /\ urlCache[call[c].videoId].extractedAt < now

\* C13: a store overwrites unconditionally: whenever an extraction closes with exit
\* code 0 and an http line, the cache entry of its key becomes the URL it extracted
\* with extractedAt = now, whatever was stored before (in particular by an
\* overlapping extraction that completed earlier), and no other key changes.
C13_LastWriterWins ==
  [][\A c \in Calls :
       (call[c].proc = "running" /\ call'[c].proc = "closed" /\ call'[c].url # NoUrl)
         => /\ urlCache'[call[c].videoId] =
                 [url |-> call'[c].url, extractedAt |-> now,
                  expiresAt |-> now + CACHE_DURATION]
            /\ \A k \in VideoIds \ {call[c].videoId} : urlCache'[k] = urlCache[k]]_vars

\* Two extractions of one key that both missed the cache have both completed, one
\* of them after the clock moved: the entry carries the later completion time.
C13_Witness ==
  \E c, d \in Calls :
    /\ c # d /\ call[c].videoId = call[d].videoId
    /\ call[c].proc = "closed" /\ call[c].promise = "resolved"
    /\ call[d].proc = "closed" /\ call[d].promise = "resolved"
    /\ now = 1
    /\ urlCache[call[c].videoId].extractedAt = now

\* C14: createStreamFromCachedUrl returns a redirect to the URL getDirectStreamUrl
\* resolved with, and when getDirectStreamUrl rejected (non-zero exit, no http
\* line, spawn error, 15 s timeout) it returns the stream of createStream.
C14_RedirectOrFallback ==
  \A c \in Calls :
    /\ call[c].promise = "resolved" => call[c].result = "redirect"
    /\ call[c].promise = "rejected"
         => (call[c].result = "stream"
             /\ call[c].err \in {"exit", "nourl", "spawn", "timeout"})
    /\ call[c].promise \in {"none", "pending"} => call[c].result = "none"

\* One call fell back after the timeout, the other after output without a URL.
C14_Witness ==
  \E c, d \in Calls :
    /\ call[c].err = "timeout" /\ call[c].result = "stream"
    /\ call[d].err = "nourl" /\ call[d].result = "stream"

\* C15: streamReady is false when the session starts, becomes true only in a step
\* that delivers the first stdout chunk (totalBytes was 0), and once true stays
\* true through every later event.
C15_ReadyOnce ==
  [][\A r \in Req :
       /\ (req[r].mode = "none" /\ req'[r].mode # "none") => ~req'[r].streamReady
       /\ req[r].streamReady => req'[r].streamReady
       /\ (~req[r].streamReady /\ req'[r].streamReady)
            => (req[r].totalBytes = 0 /\ StdoutData(r))]_vars

\* A ready session has seen a further chunk, the exit and the end of stdout.
C15_Witness ==
  \E r \in Req :
    /\ req[r].streamReady /\ req[r].totalBytes = MaxChunks
    /\ req[r].proc = "exited" /\ req[r].stdout = "ended"

\* C16 (as the code has it): a request that got past plugin lookup and URL
\* resolution has invoked exactly one stream start, chosen by the selector alone:
\* createFastStream for 'fast', createStream for every other value (absent and
\* unrecognized included); the start is made once and its choice never changes.
\* A request answered 404 or failing URL resolution invokes neither.
C16_SelectByQuality ==
  [][\A r \in Req :
       /\ req'[r].pc \in {"starting", "piped"} => req'[r].mode # "none"
       /\ req'[r].mode # "none"
            => req'[r].mode = IF req'[r].quality = "fast" THEN "fast" ELSE "best"
       /\ req[r].mode # "none"
            => /\ req'[r].mode = req[r].mode
               /\ req'[r].proc \in {"running", "spawnfail"}
                    => req[r].proc \in {"running", "spawnfail"}]_vars

\* An unrecognized selector has started a best-mode stream that delivers.
C16_Witness ==
  \E r \in Req :
    /\ req[r].quality = "hd" /\ req[r].mode = "best" /\ req[r].streamReady

\* C16 as stated: every request that has been answered has invoked one of the two
\* stream starts.
C16_ExactlyOnePerRequest ==
  \A r \in Req : req[r].pc = "done" => req[r].mode # "none"

\* C17: a request with selector 'fast' never runs a best-mode start, and once its
\* fast start has failed (timeout, stderr error, spawn error, non-zero exit) the
\* handler has answered with the 500 error body.
C17_NoFastToBestFallback ==
  \A r \in Req :
    Quality(req[r].quality) = "fast"
      => /\ req[r].mode \in {"none", "fast"}
         /\ req[r].promise = "rejected"
              => /\ req[r].err[1] \in {"timeout", "stderr", "spawn", "exit"}
                 /\ req[r].pc = "done"
                 /\ req[r].status = 500 /\ req[r].body = "json"

\* Two fast requests have failed, one by timeout, one by a non-zero exit.
C17_Witness ==
  \E r, q \in Req :
    /\ req[r].mode = "fast" /\ req[r].err[1] = "timeout" /\ req[r].status = 500
    /\ req[q].mode = "fast" /\ req[q].err[1] = "exit" /\ req[q].status = 500

\* C18: a session that has received its first stdout byte has no armed timer, and
\* the passing of the startup deadline after that changes nothing but the timer
\* itself: no signal, no change of the promise, the process or the stream.
C18_OnlyStartupTimeout ==
  [][\A r \in Req :
       /\ req'[r].streamReady => req'[r].timer # "armed"
       /\ (req[r].streamReady /\ Deadline(r))
            => /\ req'[r].sig = req[r].sig
               /\ req'[r].promise = req[r].promise
               /\ req'[r].err = req[r].err
               /\ req'[r].proc = req[r].proc
               /\ req'[r].stdout = req[r].stdout
               /\ req'[r].pc = req[r].pc]_vars

\* The deadline has passed on a streaming session whose process runs on.
C18_Witness ==
  \E r \in Req :
    /\ req[r].streamReady /\ req[r].timer = "lapsed"
    /\ req[r].proc = "running" /\ req[r].sig = "none"
    /\ req[r].promise = "resolved" /\ req[r].pc = "piped"

\* C19: the 'exit' of a process whose session is ready (the step that takes the
\* process from running to exited, with any code or signal) leaves the promise and
\* its error as they were, does not touch the stream and writes no error response.
C19_ExitAfterStartNoError ==
  [][\A r \in Req :
       (req[r].streamReady /\ req[r].proc = "running" /\ req'[r].proc = "exited")
         => /\ req'[r].promise = req[r].promise
            /\ req'[r].err = req[r].err
            /\ req'[r].stdout = req[r].stdout
            /\ req'[r].status = req[r].status
            /\ req'[r].body = req[r].body
            /\ req'[r].pc = req[r].pc]_vars

\* A resolved, piped stream has ended after the exit of its process: the response
\* is complete with status 200.
C19_Witness ==
  \E r \in Req :
    /\ req[r].streamReady /\ req[r].promise = "resolved"
    /\ req[r].proc = "exited" /\ req[r].stdout = "ended"
    /\ req[r].pc = "piped" /\ req[r].ended /\ req[r].status = 200

\* C20: whatever renditions a source has, the fast strategy either selects a
\* pre-combined rendition of height at most 720 or selects nothing (and fails).
C20_FastCapped ==
  selected \notin {Unselected, NoFormat}
    => (selected.kind = "combined" /\ selected.height <= HeightCap)

C22_FreshExtraction ==
  [][\A r \in Req :
       /\ (req[r].proc = "none" /\ req'[r].proc # "none")
            => /\ req'[r].proc \in {"running", "spawnfail"}
               /\ req'[r].stdout = "open"
               /\ req'[r].promise = "pending"
               /\ ~req'[r].streamReady
               /\ req'[r].totalBytes = 0
       /\ req'[r].written <= req'[r].totalBytes]_vars

\* The process of one request has exited and its stream ended; another request
\* for the same source streams from its own running process.
C22_Witness ==
  \E r, q \in Req :
    /\ req[q].proc = "exited" /\ req[q].stdout = "ended"
    /\ req[r].proc = "running" /\ req[r].streamReady /\ req[r].written > 0
    /\ req[r].spawnPeers = {}

\* A pending best-mode start still has something that can settle it: its armed
\* timer, or a process or stream that can still deliver an event.
BestStartSettles ==
  \A r \in Req :
    (req[r].mode = "best" /\ req[r].promise = "pending")
      => \/ req[r].timer = "armed"
         \/ req[r].proc \in {"running", "spawnfail"}
         \/ req[r].stdout = "open"

\* A pending getDirectStreamUrl call still has its 15 s timer armed.
DirectCallSettles ==
  \A c \in Calls : call[c].promise = "pending" => call[c].timer = "armed"

\* C23: every createStream call and every getDirectStreamUrl call settles: no
\* state leaves such a call pending with nothing left that could resolve or
\* reject it.
C23_StartsSettle == BestStartSettles /\ DirectCallSettles

\* C24: once the child has emitted 'error' for a failed launch, the start call
\* has been rejected with the spawn error and the request answered with the 500
\* error body; the request never gets another process afterwards.
C24_SpawnErrorFails ==
  [][\A r \in Req :
       /\ req'[r].proc = "failed"
            => /\ req'[r].promise = "rejected"
               /\ req'[r].err[1] = "spawn"
               /\ req'[r].pc = "done"
               /\ req'[r].status = 500 /\ req'[r].body = "json"
       /\ req[r].proc = "failed"
            => (req'[r].proc = "failed" /\ req'[r].mode = req[r].mode)]_vars

\* A launch has failed in each mode; both requests were answered 500, and the
\* stdout of one has ended since.
C24_Witness ==
  \E r, q \in Req :
    /\ req[r].mode = "fast" /\ req[r].proc = "failed" /\ req[r].status = 500
    /\ req[q].mode = "best" /\ req[q].proc = "failed" /\ req[q].status = 500
    /\ req[q].stdout = "ended"

\* C25: a request whose client went away before the stream start resolved does
\* not go on to stream from a running process that was sent no signal. (A
\* disconnect of a piped stream destroys the stream, so a gone client with an
\* open piped stream disconnected before the listeners were registered.)
C25_DisconnectWhileStarting ==
  \A r \in Req :
    (req[r].clientGone /\ req[r].pc = "piped" /\ req[r].stdout = "open"
       /\ req[r].proc = "running")
      => req[r].sig \in {"SIGTERM", "SIGKILL"}

\* C26: for a GET request that is streaming to a connected client, the chunks
\* written to the response are all the chunks the process has emitted on stdout,
\* the first one included.
C26_BytesExact ==
  \A r \in Req :
    (req[r].method = "GET" /\ req[r].pc = "piped" /\ ~req[r].clientGone
       /\ req[r].stdout \in {"open", "ended"})
      => req[r].written = req[r].totalBytes

\* C27: whenever a stream start has been rejected, its process has exited, never
\* ran, or has been sent a kill signal.
C27_RejectMeansKilled ==
  \A r \in Req :
    req[r].promise = "rejected"
      => (req[r].proc \in {"exited", "failed"} \/ req[r].sig # "none")

\* C28: a settled start keeps its outcome through every later event, and a
\* session whose start was rejected is never marked ready.
C28_OneOutcome ==
  [][\A r \in Req :
       /\ req[r].promise \in {"resolved", "rejected"}
            => (req'[r].promise = req[r].promise /\ req'[r].err = req[r].err)
       /\ req'[r].promise = "rejected" => ~req'[r].streamReady]_vars

\* C29: when the handler has returned through the HEAD branch after the stream
\* start resolved, the process it spawned is not left running: it has exited or
\* has been sent a signal.
C29_HeadProcessTerminated ==
  \A r \in Req :
    (req[r].method = "HEAD" /\ req[r].pc = "done" /\ req[r].promise = "resolved"
       /\ req[r].proc = "running")
      => req[r].sig # "none"

\* C30: a call of getDirectStreamUrl that finds an unexpired entry spawns
\* nothing: the call has no process and no timer, the calls that have a process
\* are the same as before, and the cache is unchanged.
C30_HitSpawnsNothing ==
  [][\A c \in Calls :
       (/\ call[c].promise = "none" /\ call'[c].promise # "none"
        /\ CacheHas(urlCache, call'[c].videoId)
        /\ now < urlCache[call'[c].videoId].expiresAt)
         => /\ call'[c].proc = "none"
            /\ call'[c].timer = "unset"
            /\ {d \in Calls : call'[d].proc # "none"} = {d \in Calls : call[d].proc # "none"}
            /\ urlCache' = urlCache]_vars

\* A call has been answered from the cache while the extractor of an overlapping
\* call for the same key is still running.
C30_Witness ==
  \E c, d \in Calls :
    /\ c # d /\ call[c].videoId = call[d].videoId
    /\ call[c].proc = "none" /\ call[c].result = "redirect"
    /\ call[c].value = urlCache[call[c].videoId].url
    /\ call[d].proc = "running"

\* C31: a call of getDirectStreamUrl that has been rejected has written no cache
\* entry: its 'close' listener stored no URL, whether the rejection came from the
\* exit code, from an output without URL, from the spawn or from the 15 s timer.
C31_FailedCallWritesNothing ==
  \A c \in Calls : call[c].promise = "rejected" => call[c].url = NoUrl

\* C32: when the 15 s timer of a call that has already resolved runs, the
\* resolved value, the call's process, the cache and every other call are left
\* as they were; only the timer itself has run.
C32_LateTimerNoEffect ==
  [][\A c \in Calls :
       (call[c].promise = "resolved" /\ call[c].timer = "armed"
          /\ call'[c].timer = "fired")
         => /\ call'[c] = [call[c] EXCEPT !.timer = "fired"]
            /\ urlCache' = urlCache
            /\ \A d \in Calls \ {c} : call'[d] = call[d]]_vars

\* The timer of a resolved call has run while the entry the call stored is in
\* the cache and another call is waiting for its extractor.
C32_Witness ==
  \E c, d \in Calls :
    /\ c # d
    /\ call[c].promise = "resolved" /\ call[c].timer = "fired"
    /\ call[c].proc = "closed" /\ call[c].url = call[c].value
    /\ urlCache[call[c].videoId].url = call[c].value
    /\ call[d].proc = "running" /\ call[d].promise = "pending"

\* C33: the URL a call of getDirectStreamUrl resolved with was extracted from
\* that call's videoUrl.
C33_UrlOfSameSource ==
  \A c \in Calls :
    call[c].promise = "resolved" => call[c].value = <<"http", call[c].videoUrl>>

\* C34: requesting the listed 'fast' URL selects the fast strategy, requesting
\* the listed 'best' URL selects the best strategy, and the proxy handler
\* decodes the same config as the stream endpoint did.
C34_ListedUrlsSelect ==
  (gw.proxy # NoAnswer /\ gw.proxy.answer.mode # "none")
    => /\ gw.proxy.answer.mode = gw.proxy.listed
       /\ gw.proxy.answer.config = gw.stream.config

\* C35: the stream and meta endpoints parse the item id of the catalog back
\* into the plugin name and the whole video id it was built from.
C35_IdRoundTrip ==
  /\ gw.stream # NoAnswer
       => (gw.stream.pluginName = gw.pluginName /\ gw.stream.videoId = gw.videoId)
  /\ gw.meta # NoAnswer
       => (gw.meta.pluginName = gw.pluginName /\ gw.meta.videoId = gw.videoId)

====
